---- MODULE Spec2Model ----
(***************************************************************************)
(* Inventory & Order Management API: the product catalog, the order store  *)
(* and the two transactional handlers placeOrder and updateOrderStatus.    *)
(*                                                                         *)
(* Every handler is cut at its awaits: one action is one database          *)
(* operation together with the synchronous JavaScript that runs after it   *)
(* up to the next await.  A MongoDB multi-document transaction reads from  *)
(* the snapshot taken at its first operation plus its own writes, and a    *)
(* write to a document that another open transaction has written, or that  *)
(* was changed after the snapshot, fails with a write conflict.            *)
(***************************************************************************)
EXTENDS Integers, Sequences, FiniteSets, TLC

\* ------------------------------------------------------------------ bounds
MaxProducts == 2      \* product ids ever issued
MaxLines == 2         \* longest items list of a request
MaxOrders == 2        \* placements accepted while fewer orders exist or are in flight
MaxReq == 2           \* transactional requests in flight at once
MaxUpdates == 2       \* status-update requests accepted
MaxEdits == 1         \* product updates and deletes accepted
RaceStock == 2        \* the stock two racing placements compete for
InitialStock == 2     \* the stock of product A before the orders that are followed
MaxIntervals == 3     \* longest list of intervals given to merge
MaxPoint == 3         \* largest end point of an interval
OrderedQty == 2       \* the quantity taken by the order whose status is updated

ProductIds == 1..MaxProducts
OrderIds == 1..MaxOrders
Req == 1..MaxReq
Quantities == {1, 2}
Statuses == {"pending", "completed", "cancelled"}
L(p, q) == [product_id |-> p, quantity |-> q]
Lines == {L(p, q) : p \in ProductIds, q \in Quantities}
ItemLists == UNION {[1..n -> Lines] : n \in 1..MaxLines}
PlaceBody(name, items) == [customer_name |-> name, items |-> items]
\* the JSON bodies of POST /orders; "" is a missing or empty customer_name,
\* " " one of white space and <<>> a missing or empty items
PlaceBodies ==
  {PlaceBody("alice", x) : x \in ItemLists}
    \cup {PlaceBody("", <<L(1, 1)>>), PlaceBody("alice", <<>>), PlaceBody(" ", <<L(1, 1)>>)}
\* the bodies of the requests that run concurrently
ConcBodies ==
  {PlaceBody("alice", x) :
     x \in {<<L(1, 1)>>, <<L(1, 2)>>, <<L(2, 1)>>, <<L(1, 1), L(2, 1)>>, <<L(2, 1), L(1, 2)>>}}
\* the bodies of two placements racing for one product
RaceBodies ==
  {PlaceBody("alice", x) : x \in {<<L(1, 1)>>, <<L(1, 2)>>, <<L(1, 1), L(1, 1)>>}}

\* ------------------------------------------------------------------- state
VARIABLES
  products,       \* Product collection, committed: id -> [exists, name, price, stock]
  nextProductId,  \* the next _id the store issues to a product
  orders,         \* Order collection, committed: sequence of orders, _id = index
  pc,             \* per request slot: the await the handler is suspended at
  req,            \* per request slot: the request being handled
  loc,            \* per request slot: the handler's local variables
  txn,            \* per request slot: the session's transaction
  nUpdates,       \* status-update requests accepted so far
  nEdits,         \* product updates and deletes accepted so far
  res,            \* the HTTP response sent by the step just taken, if any
  hist            \* history: the last placement committed, while nothing else has
                  \* changed the stores since, and the products before it

vars == <<products, nextProductId, orders, pc, req, loc, txn, nUpdates, nEdits, res, hist>>

NoProduct == [exists |-> FALSE, name |-> "", price |-> 0, stock |-> 0]
NoDoc == [id |-> 0, name |-> "", price |-> 0, stock |-> 0]
NoOrder == [id |-> 0, customer_name |-> "", items |-> <<>>, total_price |-> 0, status |-> ""]
NoError == [kind |-> "none", id |-> 0, name |-> "", available |-> 0, requested |-> 0]
NoReq == [op |-> "none"]
NoRes == [op |-> "none"]
NoStatus == 0
NoHist == [id |-> 0, products |-> [p \in ProductIds |-> NoProduct]]
NoLoc == [i |-> 0, product |-> NoDoc, items |-> <<>>, total |-> 0,
          order |-> NoOrder, error |-> NoError]
NoTxn == [active |-> FALSE, snap |-> FALSE,
          sProducts |-> [p \in ProductIds |-> NoProduct], sOrders |-> <<>>,
          written |-> {}, wStock |-> [p \in ProductIds |-> 0],
          wOrder |-> [id |-> 0, status |-> ""], ins |-> <<>>,
          dirtyP |-> {}, dirtyO |-> {}]

Err(kind) == [NoError EXCEPT !.kind = kind]

\* ------------------------------------------------------- schema validation
\* a schema that asks for a name and sets no minimum
ProductNamed(name, price, stock) == name # ""

\* models/Product.js: name required, price and stock required and >= 0
ProductValid(name, price, stock) == name # "" /\ price >= 0 /\ stock >= 0

\* an item sub-schema that sets no minimum on the quantity
OrderItemAnyQuantity(it) == it.name # "" /\ it.price_at_order >= 0

\* models/Order.js: the item sub-schema
OrderItemValid(it) == it.name # "" /\ it.price_at_order >= 0 /\ it.quantity >= 1

\* models/Order.js: the order schema
OrderValid(o) ==
  /\ o.customer_name # ""
  /\ \A k \in 1..Len(o.items) : OrderItemValid(o.items[k])
  /\ o.total_price >= 0
  /\ o.status \in {"pending", "completed", "cancelled"}

RECURSIVE SumItems(_)
SumItems(items) ==
  IF items = <<>> THEN 0
  ELSE LET it == Head(items)
       IN  it.price_at_order * it.quantity + SumItems(Tail(items))

\* a hook that leaves the quantities out of the sum
OrderPreSaveUnit(o) ==
  [o EXCEPT !.total_price = SumItems([k \in 1..Len(o.items) |-> [o.items[k] EXCEPT !.quantity = 1]])]

\* models/Order.js: the pre('save') hook recomputes total_price from the items
OrderPreSave(o) == [o EXCEPT !.total_price = SumItems(o.items)]

\* ------------------------------------------------------------ transactions
\* mongoose.startSession() and session.startTransaction()
StartTransaction == [NoTxn EXCEPT !.active = TRUE]

\* the snapshot a transaction reads from is taken by its first operation
WithSnapshot(t) ==
  IF t.snap THEN t
  ELSE [t EXCEPT !.snap = TRUE, !.sProducts = products, !.sOrders = orders]

\* a read that misses the transaction's own writes
SnapshotProduct(t, p) == t.sProducts[p]

\* a read made outside the session: the committed document
CommittedProduct(t, p) == products[p]

\* a product as the transaction sees it: the snapshot overlaid with its own writes
TxProduct(t, p) ==
  IF p \in t.written THEN [t.sProducts[p] EXCEPT !.stock = t.wStock[p]]
  ELSE t.sProducts[p]

\* an order as the transaction sees it
TxOrder(t, o) ==
  IF t.wOrder.id = o THEN [t.sOrders[o] EXCEPT !.status = t.wOrder.status]
  ELSE t.sOrders[o]

\* the document an update operator of the transaction acts on: the stored one,
\* under the transaction's own writes; a write that does not conflict finds it
\* as the snapshot has it
StoredProduct(t, p) ==
  IF p \in t.written THEN [products[p] EXCEPT !.stock = t.wStock[p]]
  ELSE products[p]

\* product p carries an uncommitted write of a transaction other than r's
LockedByOther(r, p) == \E q \in Req \ {r} : txn[q].active /\ p \in txn[q].written
Locked(p) == \E q \in Req : txn[q].active /\ p \in txn[q].written

OrderLockedByOther(r, o) == \E q \in Req \ {r} : txn[q].active /\ txn[q].wOrder.id = o

\* writes that never conflict
NoConflict(r, t, p) == FALSE

\* a transactional write to product p conflicts
ProductConflict(r, t, p) == p \in t.dirtyP \/ LockedByOther(r, p)

\* a transactional write to order o conflicts
OrderConflict(r, t, o) == o \in t.dirtyO \/ OrderLockedByOther(r, o)

\* a store in which no commit makes a snapshot stale
MarkNothing(r, ps, os) == [q \in Req |-> IF q = r THEN NoTxn ELSE txn[q]]

\* a commit the other transactions do not notice
MarkClean(r, ps, os) == [q \in Req |-> IF q = r THEN NoTxn ELSE txn[q]]

\* the transactions left open after slot r's ends, told which documents changed
MarkDirty(r, ps, os) ==
  [q \in Req |->
     IF q = r THEN NoTxn
     ELSE IF txn[q].active /\ txn[q].snap
          THEN [txn[q] EXCEPT !.dirtyP = @ \cup ps, !.dirtyO = @ \cup os]
          ELSE txn[q]]

\* the open transactions told that a non-transactional write changed products ps
MarkDirtyProducts(ps) ==
  [q \in Req |->
     IF txn[q].active /\ txn[q].snap
     THEN [txn[q] EXCEPT !.dirtyP = @ \cup ps]
     ELSE txn[q]]

\* the Product collection after transaction t commits
CommittedProducts(t) ==
  [p \in ProductIds |->
     IF p \in t.written THEN [products[p] EXCEPT !.stock = t.wStock[p]]
     ELSE products[p]]

\* a commit whose new order takes the place of the collection
CommittedOrdersLatest(t) == IF t.ins = <<>> THEN orders ELSE t.ins

\* the Order collection after transaction t commits
CommittedOrders(t) ==
  [k \in 1..Len(orders) |->
     IF t.wOrder.id = k THEN OrderPreSave([orders[k] EXCEPT !.status = t.wOrder.status])
     ELSE orders[k]] \o t.ins

\* ------------------------------------------------------------------ Init
Idle ==
  /\ orders = <<>>
  /\ pc = [r \in Req |-> "idle"]
  /\ req = [r \in Req |-> NoReq]
  /\ loc = [r \in Req |-> NoLoc]
  /\ txn = [r \in Req |-> NoTxn]
  /\ nUpdates = 0
  /\ nEdits = 0
  /\ res = NoRes
  /\ hist = NoHist

\* the database is empty
Init ==
  /\ products = [p \in ProductIds |-> NoProduct]
  /\ nextProductId = 1
  /\ Idle

ProductA(stock) == [exists |-> TRUE, name |-> "A", price |-> 1, stock |-> stock]

\* one product has been created
InitOne(stock) ==
  /\ products = [p \in ProductIds |-> IF p = 1 THEN ProductA(stock) ELSE NoProduct]
  /\ nextProductId = 2
  /\ Idle

\* ------------------------------------------------------ product controller
\* the String schema type's trim setter (models/Product.js, name)
Trim(name) ==
  IF name = " " THEN "" ELSE IF name = " A" THEN "A"
  ELSE IF name = " alice" THEN "alice" ELSE name

\* the field of a JSON body: absent, or present with a value
Absent == [has |-> FALSE, v |-> 0]
Field(v) == [has |-> TRUE, v |-> v]
NoName == [has |-> FALSE, v |-> ""]
ProductBody(name, price, stock) == [name |-> name, price |-> price, stock |-> stock]

\* the JSON bodies of POST /products
CreateBodies ==
  {ProductBody(Field("A"), Field(1), Field(2)), ProductBody(Field("B"), Field(2), Field(1))}

\* the JSON bodies of PUT /products/:id
UpdateBodies ==
  {ProductBody(NoName, Field(3), Absent), ProductBody(NoName, Absent, Field(0)),
   ProductBody(NoName, Absent, Field(0 - 1)), ProductBody(Field("B"), Absent, Absent)}

\* an id of a request that is no ObjectId, as 'non_existent_id'
MalformedId == 0 - 1

\* the ids a request may name: the ids the store issues, and a malformed one
ProductIdsIn == ProductIds \cup {MalformedId}

\* the stores as a step finds them
Stores == [products |-> products, orders |-> orders, hist |-> hist]

\* the stores as transaction t reads them
Seen(t) ==
  IF t.snap THEN [products |-> t.sProducts, orders |-> t.sOrders, hist |-> hist]
  ELSE Stores

\* history: the calls a handler has made on its session when it ends; a handler
\* that starts no transaction has made none
NoSession == [started |-> FALSE, commits |-> 0, aborts |-> 0, ends |-> 0]
Session(commits, aborts, ends) ==
  [started |-> TRUE, commits |-> commits, aborts |-> aborts, ends |-> ends]

\* res.status(status).json(...): the response, with the request it answers; seen
\* (what the handler read) and before (the stores before the step) are history
Respond(op, rq, status, error, seen) ==
  [op |-> op, req |-> rq, status |-> status, error |-> error,
   seen |-> seen, before |-> Stores, session |-> NoSession]

\* res.status(status).json(body) of a handler that only reads
RespondBody(op, rq, status, error, body) ==
  [op |-> op, req |-> rq, status |-> status, error |-> error,
   seen |-> Stores, before |-> Stores, session |-> NoSession, body |-> body]

\* a handler whose promise rejects sends nothing itself: Express 4 leaves the
\* request unanswered (NoStatus), Express 5 answers 500 through its error handler
Unhandled == {NoStatus, 500}

\* a request is taken up, and a handler resumed, once the last response is out
Ready == res = NoRes

\* the response is delivered to the client
Deliver ==
  /\ res # NoRes
  /\ res' = NoRes
  /\ UNCHANGED <<products, nextProductId, orders, pc, req, loc, txn, nUpdates, nEdits, hist>>

\* history: a step that changes the stores ends the memory of the last placement
Forget ==
  hist' = IF products' = products /\ orders' = orders THEN hist ELSE NoHist

\* an index that lets every name in
NameFree(name, except) == FALSE

\* the unique index on Product.name
NameTaken(name, except) ==
  \E p \in ProductIds \ {except} : products[p].exists /\ products[p].name = name

\* exports.getProductById
GetProductById(id) ==
  /\ Ready
  /\ LET rq == [op |-> "getProductById", id |-> id]
     IN  IF id = MalformedId
         THEN res' = RespondBody("getProductById", rq, 500, Err("CastError"), NoProduct)
         ELSE IF ~products[id].exists
         THEN res' = RespondBody("getProductById", rq, 404, Err("ProductNotFound"), NoProduct)
         ELSE res' = RespondBody("getProductById", rq, 200, NoError, products[id])
  /\ UNCHANGED <<products, nextProductId, orders, pc, req, loc, txn, nUpdates, nEdits, hist>>

\* a check that asks for a name and a price, and leaves the stock to the schema
FieldsMissingButStock(b) == ~b.name.has \/ b.name.v = "" \/ ~b.price.has

\* createProduct: !name || price == null || stock == null
FieldsMissing(b) == ~b.name.has \/ b.name.v = "" \/ ~b.price.has \/ ~b.stock.has

\* exports.createProduct
CreateProduct(b) ==
  /\ Ready
  /\ nextProductId <= MaxProducts
  /\ LET rq == [op |-> "createProduct", body |-> b]
         name == Trim(b.name.v)
     IN  IF FieldsMissing(b)
         THEN /\ res' = Respond("createProduct", rq, 400, Err("MissingFields"), Stores)
              /\ UNCHANGED <<products, nextProductId>>
         ELSE IF ~ProductValid(name, b.price.v, b.stock.v)
         THEN /\ res' = Respond("createProduct", rq, 400, Err("ValidationError"), Stores)
              /\ UNCHANGED <<products, nextProductId>>
         ELSE IF NameTaken(name, 0)
         THEN /\ res' = Respond("createProduct", rq, 400, Err("DuplicateName"), Stores)
              /\ UNCHANGED <<products, nextProductId>>
         ELSE /\ products' = [products EXCEPT ![nextProductId] =
                    [exists |-> TRUE, name |-> name, price |-> b.price.v,
                     stock |-> b.stock.v]]
              /\ nextProductId' = nextProductId + 1
              /\ res' = Respond("createProduct", rq, 201, NoError, Stores)
  /\ UNCHANGED <<orders, pc, req, loc, txn, nUpdates, nEdits>>
  /\ Forget

\* the document findByIdAndUpdate(id, body) leaves: the fields of the body are $set
UpdatedProduct(doc, b) ==
  [exists |-> TRUE,
   name |-> IF b.name.has THEN Trim(b.name.v) ELSE doc.name,
   price |-> IF b.price.has THEN b.price.v ELSE doc.price,
   stock |-> IF b.stock.has THEN b.stock.v ELSE doc.stock]

\* an update that runs no validators
UpdateUnchecked(b) == TRUE

\* runValidators: the schema's validators on the fields the body sets
UpdateValid(b) ==
  /\ (b.name.has => Trim(b.name.v) # "")
  /\ (b.price.has => b.price.v >= 0)
  /\ (b.stock.has => b.stock.v >= 0)

\* the orders with the items of product id rewritten to the document's name and price
FollowProduct(id, doc) ==
  [k \in 1..Len(orders) |->
     OrderPreSave([orders[k] EXCEPT !.items =
       [j \in 1..Len(orders[k].items) |->
          IF doc.exists /\ orders[k].items[j].product_id = id
          THEN [orders[k].items[j] EXCEPT !.name = doc.name, !.price_at_order = doc.price]
          ELSE orders[k].items[j]]])]

\* an update that carries the product's name and price into the orders
UpdateProductCascading(id, b) ==
  /\ Ready
  /\ nEdits < MaxEdits
  /\ LET rq == [op |-> "updateProduct", id |-> id, body |-> b]
     IN  IF ~UpdateValid(b)
         THEN /\ res' = Respond("updateProduct", rq, 400, Err("ValidationError"), Stores)
              /\ UNCHANGED <<products, txn, nEdits>>
         ELSE IF ~products[id].exists
         THEN /\ res' = Respond("updateProduct", rq, 404, Err("ProductNotFound"), Stores)
              /\ UNCHANGED <<products, txn, nEdits>>
         ELSE /\ ~Locked(id)
              /\ IF b.name.has /\ NameTaken(Trim(b.name.v), id)
                 THEN /\ res' = Respond("updateProduct", rq, 400, Err("DuplicateName"), Stores)
                      /\ UNCHANGED <<products, txn, nEdits>>
                 ELSE /\ products' = [products EXCEPT ![id] = UpdatedProduct(@, b)]
                      /\ txn' = MarkDirtyProducts({id})
                      /\ nEdits' = nEdits + 1
                      /\ res' = Respond("updateProduct", rq, 200, NoError, Stores)
  /\ orders' = FollowProduct(id, products'[id])
  /\ UNCHANGED <<nextProductId, pc, req, loc, nUpdates>>
  /\ Forget

\* exports.updateProduct
UpdateProduct(id, b) ==
  /\ Ready
  /\ nEdits < MaxEdits
  /\ LET rq == [op |-> "updateProduct", id |-> id, body |-> b]
     IN  IF id = MalformedId
         THEN /\ res' = Respond("updateProduct", rq, 400, Err("CastError"), Stores)
              /\ UNCHANGED <<products, txn, nEdits>>
         ELSE IF ~UpdateValid(b)
         THEN /\ res' = Respond("updateProduct", rq, 400, Err("ValidationError"), Stores)
              /\ UNCHANGED <<products, txn, nEdits>>
         ELSE IF ~products[id].exists
         THEN /\ res' = Respond("updateProduct", rq, 404, Err("ProductNotFound"), Stores)
              /\ UNCHANGED <<products, txn, nEdits>>
         ELSE /\ ~Locked(id)
              /\ IF b.name.has /\ NameTaken(Trim(b.name.v), id)
                 THEN /\ res' = Respond("updateProduct", rq, 400, Err("DuplicateName"), Stores)
                      /\ UNCHANGED <<products, txn, nEdits>>
                 ELSE /\ products' = [products EXCEPT ![id] = UpdatedProduct(@, b)]
                      /\ txn' = MarkDirtyProducts({id})
                      /\ nEdits' = nEdits + 1
                      /\ res' = Respond("updateProduct", rq, 200, NoError, Stores)
  /\ UNCHANGED <<nextProductId, orders, pc, req, loc, nUpdates>>
  /\ Forget

\* exports.deleteProduct
DeleteProduct(id) ==
  /\ Ready
  /\ nEdits < MaxEdits
  /\ LET rq == [op |-> "deleteProduct", id |-> id]
     IN  IF id = MalformedId
         THEN /\ res' = Respond("deleteProduct", rq, 500, Err("CastError"), Stores)
              /\ UNCHANGED <<products, txn, nEdits>>
         ELSE IF ~products[id].exists
         THEN /\ res' = Respond("deleteProduct", rq, 404, Err("ProductNotFound"), Stores)
              /\ UNCHANGED <<products, txn, nEdits>>
         ELSE /\ ~Locked(id)
              /\ products' = [products EXCEPT ![id] = NoProduct]
              /\ txn' = MarkDirtyProducts({id})
              /\ nEdits' = nEdits + 1
              /\ res' = Respond("deleteProduct", rq, 200, NoError, Stores)
  /\ UNCHANGED <<nextProductId, orders, pc, req, loc, nUpdates>>
  /\ Forget

\* ------------------------------------------------- order controller: placeOrder
\* a commit that lands the order writes and loses the product writes
CommitOrdersOnly(r) ==
  /\ orders' = CommittedOrders(txn[r])
  /\ txn' = MarkDirty(r, {}, IF txn[r].wOrder.id = 0 THEN {} ELSE {txn[r].wOrder.id})
  /\ UNCHANGED products

\* session.commitTransaction(): the transaction's writes land together
CommitTransaction(r) ==
  /\ products' = CommittedProducts(txn[r])
  /\ orders' = CommittedOrders(txn[r])
  /\ txn' = MarkDirty(r, txn[r].written,
                      IF txn[r].wOrder.id = 0 THEN {} ELSE {txn[r].wOrder.id})

\* an abort that leaves the product writes in place
AbortKeepingWrites(r) ==
  /\ products' = CommittedProducts(txn[r])
  /\ txn' = [txn EXCEPT ![r] = NoTxn]
  /\ UNCHANGED orders

\* session.abortTransaction(): the transaction's writes are dropped
AbortTransaction(r) ==
  /\ txn' = [txn EXCEPT ![r] = NoTxn]
  /\ UNCHANGED <<products, orders>>

\* a request is handled in the lowest free slot
FreeSlot(r) == pc[r] = "idle" /\ \A q \in Req : q < r => pc[q] # "idle"

PlacementsInFlight == Cardinality({q \in Req : req[q].op = "placeOrder"})

\* a check of the items only
BodyWithoutItems(b) == b.items = <<>>

\* placeOrder, line 18: !customer_name || !items || items.length === 0
BodyInvalid(b) == b.customer_name = "" \/ b.items = <<>>

\* placeOrder, lines 8-20: the session, the transaction and the body's validation
PO_Begin(r, b) ==
  /\ Ready
  /\ FreeSlot(r)
  /\ Len(orders) + PlacementsInFlight < MaxOrders
  /\ req' = [req EXCEPT ![r] = [op |-> "placeOrder", body |-> b]]
  /\ txn' = [txn EXCEPT ![r] = StartTransaction]
  /\ IF BodyInvalid(b)
     THEN /\ loc' = [loc EXCEPT ![r] = [NoLoc EXCEPT !.error = Err("ValidationError")]]
          /\ pc' = [pc EXCEPT ![r] = "po_abort"]
     ELSE /\ loc' = [loc EXCEPT ![r] = [NoLoc EXCEPT !.i = 1]]
          /\ pc' = [pc EXCEPT ![r] = "po_find"]
  /\ res' = NoRes
  /\ UNCHANGED <<products, nextProductId, orders, nUpdates, nEdits, hist>>

\* a decrement by one whatever the quantity
DecrementedOne(product, item) == product.stock - 1

\* placeOrder, line 38: product.stock -= item.quantity
Decremented(product, item) == product.stock - item.quantity

\* placeOrder, lines 28-38: Product.findById in the session, then the two checks
\* and the decrement of the local document
PO_Find(r) ==
  /\ Ready
  /\ pc[r] = "po_find"
  /\ LET t == WithSnapshot(txn[r])
         item == req[r].body.items[loc[r].i]
         product == TxProduct(t, item.product_id)
     IN  /\ txn' = [txn EXCEPT ![r] = t]
         /\ IF ~product.exists
            THEN /\ loc' = [loc EXCEPT ![r].error =
                              [Err("ProductNotFound") EXCEPT !.id = item.product_id]]
                 /\ pc' = [pc EXCEPT ![r] = "po_abort"]
            ELSE IF product.stock < item.quantity
            THEN /\ loc' = [loc EXCEPT ![r].error =
                              [Err("InsufficientStock") EXCEPT !.name = product.name,
                                 !.available = product.stock, !.requested = item.quantity]]
                 /\ pc' = [pc EXCEPT ![r] = "po_abort"]
            ELSE /\ loc' = [loc EXCEPT ![r].product =
                              [id |-> item.product_id, name |-> product.name,
                               price |-> product.price,
                               stock |-> Decremented(product, item)]]
                 /\ pc' = [pc EXCEPT ![r] = "po_saveProduct"]
  /\ res' = NoRes
  /\ UNCHANGED <<products, nextProductId, orders, req, nUpdates, nEdits, hist>>

\* a list that takes the new item at its head
PushedFirst(items, x) == <<x>> \o items

\* orderItemsWithDetails.push(x)
Pushed(items, x) == Append(items, x)

\* placeOrder, lines 39-49: product.save in the session, then the item is pushed,
\* the total accumulated and the loop goes on
PO_SaveProduct(r) ==
  /\ Ready
  /\ pc[r] = "po_saveProduct"
  /\ LET t == txn[r]
         item == req[r].body.items[loc[r].i]
         product == loc[r].product
         modified == item.quantity # 0
     IN  IF modified /\ ~ProductValid(product.name, product.price, product.stock)
         THEN /\ loc' = [loc EXCEPT ![r].error = Err("ProductValidationError")]
              /\ pc' = [pc EXCEPT ![r] = "po_abort"]
              /\ UNCHANGED txn
         ELSE IF modified /\ ProductConflict(r, t, product.id)
         THEN /\ loc' = [loc EXCEPT ![r].error = Err("WriteConflict")]
              /\ pc' = [pc EXCEPT ![r] = "po_abort"]
              /\ UNCHANGED txn
         ELSE /\ txn' = IF modified
                        THEN [txn EXCEPT ![r].written = @ \cup {product.id},
                                         ![r].wStock[product.id] = product.stock]
                        ELSE txn
              /\ loc' = [loc EXCEPT
                           ![r].items = Pushed(@, [product_id |-> product.id,
                                                   name |-> product.name,
                                                   price_at_order |-> product.price,
                                                   quantity |-> item.quantity]),
                           ![r].total = @ + product.price * item.quantity,
                           ![r].i = @ + 1,
                           ![r].product = NoDoc]
              /\ pc' = [pc EXCEPT ![r] =
                          IF loc[r].i = Len(req[r].body.items)
                          THEN "po_saveOrder" ELSE "po_find"]
  /\ res' = NoRes
  /\ UNCHANGED <<products, nextProductId, orders, req, nUpdates, nEdits, hist>>

\* placeOrder, lines 52-59: new Order(...) and newOrder.save in the session
PO_SaveOrder(r) ==
  /\ Ready
  /\ pc[r] = "po_saveOrder"
  /\ LET newOrder == [id |-> 0, customer_name |-> Trim(req[r].body.customer_name),
                      items |-> loc[r].items, total_price |-> loc[r].total,
                      status |-> "pending"]
     IN  IF ~OrderValid(newOrder)
         THEN /\ loc' = [loc EXCEPT ![r].error = Err("OrderValidationError")]
              /\ pc' = [pc EXCEPT ![r] = "po_abort"]
              /\ UNCHANGED txn
         ELSE /\ txn' = [txn EXCEPT ![r].ins = <<OrderPreSave(newOrder)>>]
              /\ loc' = [loc EXCEPT ![r].order = OrderPreSave(newOrder)]
              /\ pc' = [pc EXCEPT ![r] = "po_commit"]
  /\ res' = NoRes
  /\ UNCHANGED <<products, nextProductId, orders, req, nUpdates, nEdits, hist>>

\* placeOrder, lines 62-66: commitTransaction, endSession, 201 with the saved order
PO_Commit(r) ==
  /\ Ready
  /\ pc[r] = "po_commit"
  /\ CommitTransaction(r)
  /\ res' = [Respond("placeOrder", req[r], 201, NoError, Seen(txn[r]))
               EXCEPT !.session = Session(1, 0, 1)]
  /\ pc' = [pc EXCEPT ![r] = "idle"]
  /\ req' = [req EXCEPT ![r] = NoReq]
  /\ loc' = [loc EXCEPT ![r] = NoLoc]
  /\ UNCHANGED <<nextProductId, nUpdates, nEdits>>
  /\ hist' = [id |-> Len(orders) + 1, products |-> products]

\* placeOrder, lines 62 and 68-70: commitTransaction throws on a storage failure
\* and the transaction's writes are dropped; in the catch abortTransaction throws
\* in its turn, the session's transaction having been committed already, so that
\* lines 72-74 do not run: the handler ends and no response is sent (NoStatus)
PO_CommitFails(r) ==
  /\ Ready
  /\ pc[r] = "po_commit"
  /\ AbortTransaction(r)
  /\ \E status \in Unhandled :
       res' = [Respond("placeOrder", req[r], status, Err("StorageFailure"), Seen(txn[r]))
                 EXCEPT !.session = Session(1, 1, 0)]
  /\ pc' = [pc EXCEPT ![r] = "idle"]
  /\ req' = [req EXCEPT ![r] = NoReq]
  /\ loc' = [loc EXCEPT ![r] = NoLoc]
  /\ UNCHANGED <<nextProductId, nUpdates, nEdits>>
  /\ Forget

\* placeOrder, lines 68-75: abortTransaction, endSession, 400 with the error's message
PO_Abort(r) ==
  /\ Ready
  /\ pc[r] = "po_abort"
  /\ AbortTransaction(r)
  /\ res' = [Respond("placeOrder", req[r], 400, loc[r].error, Seen(txn[r]))
               EXCEPT !.session = Session(0, 1, 1)]
  /\ pc' = [pc EXCEPT ![r] = "idle"]
  /\ req' = [req EXCEPT ![r] = NoReq]
  /\ loc' = [loc EXCEPT ![r] = NoLoc]
  /\ UNCHANGED <<nextProductId, nUpdates, nEdits>>
  /\ Forget

\* ------------------------------------------ order controller: updateOrderStatus
StatusIn == Statuses \cup {"", "shipped"}

\* a check for a missing status only
StatusMissing(status) == status = ""

\* updateOrderStatus, line 132: !status || !validStatuses.includes(status)
StatusInvalid(status) == status = "" \/ status \notin Statuses

\* updateOrderStatus, lines 128-137: the status is validated, then the session
\* and the transaction are started
US_Begin(r, id, status) ==
  /\ Ready
  /\ FreeSlot(r)
  /\ nUpdates < MaxUpdates
  /\ LET rq == [op |-> "updateOrderStatus", id |-> id, status |-> status]
     IN  IF StatusInvalid(status)
         THEN /\ res' = Respond("updateOrderStatus", rq, 400, Err("InvalidStatus"), Stores)
              /\ UNCHANGED <<pc, req, loc, txn, nUpdates>>
         ELSE /\ req' = [req EXCEPT ![r] = rq]
              /\ txn' = [txn EXCEPT ![r] = StartTransaction]
              /\ loc' = [loc EXCEPT ![r] = NoLoc]
              /\ pc' = [pc EXCEPT ![r] = "us_find"]
              /\ nUpdates' = nUpdates + 1
              /\ res' = NoRes
  /\ UNCHANGED <<products, nextProductId, orders, nEdits, hist>>

\* a restoration on every request to cancel
ShouldRestoreAnyCancel(order, status) == status = "cancelled"

\* a restoration that skips pending orders
ShouldRestoreCompleted(order, status) == order.status = "completed" /\ status = "cancelled"

\* updateOrderStatus, line 147: stock is restored when the order becomes cancelled
\* and was not
ShouldRestore(order, status) == order.status # "cancelled" /\ status = "cancelled"

\* an increment by one whatever the quantity
RestoredOne(product, item) == product.stock + 1

\* updateOrderStatus, line 151: $inc: { stock: item.quantity }
Restored(product, item) == product.stock + item.quantity

\* updateOrderStatus, lines 140-148: Order.findById in the session, then the
\* decision whether stock is restored
US_Find(r) ==
  /\ Ready
  /\ pc[r] = "us_find"
  /\ LET t == WithSnapshot(txn[r])
         id == req[r].id
     IN  /\ txn' = [txn EXCEPT ![r] = t]
         /\ IF id > Len(t.sOrders)
            THEN /\ loc' = [loc EXCEPT ![r].error = Err("OrderNotFound")]
                 /\ pc' = [pc EXCEPT ![r] = "us_abort"]
            ELSE LET order == [TxOrder(t, id) EXCEPT !.id = id]
                 IN  /\ loc' = [loc EXCEPT ![r].order = order, ![r].i = 1]
                     /\ pc' = [pc EXCEPT ![r] =
                                 IF ShouldRestore(order, req[r].status) /\ order.items # <<>>
                                 THEN "us_inc" ELSE "us_save"]
  /\ res' = NoRes
  /\ UNCHANGED <<products, nextProductId, orders, req, nUpdates, nEdits, hist>>

\* updateOrderStatus, lines 148-155: Product.findByIdAndUpdate with $inc in the
\* session, for the item the loop is at
US_Inc(r) ==
  /\ Ready
  /\ pc[r] = "us_inc"
  /\ LET t == txn[r]
         item == loc[r].order.items[loc[r].i]
         p == item.product_id
         product == TxProduct(t, p)
     IN  IF product.exists /\ ProductConflict(r, t, p)
         THEN /\ loc' = [loc EXCEPT ![r].error = Err("WriteConflict")]
              /\ pc' = [pc EXCEPT ![r] = "us_abort"]
              /\ UNCHANGED txn
         ELSE /\ txn' = IF product.exists
                        THEN [txn EXCEPT ![r].written = @ \cup {p},
                                         ![r].wStock[p] = Restored(StoredProduct(t, p), item)]
                        ELSE txn
              /\ loc' = [loc EXCEPT ![r].i = @ + 1]
              /\ pc' = [pc EXCEPT ![r] =
                          IF loc[r].i = Len(loc[r].order.items)
                          THEN "us_save" ELSE "us_inc"]
  /\ res' = NoRes
  /\ UNCHANGED <<products, nextProductId, orders, req, nUpdates, nEdits, hist>>

\* a handler that lets an order leave no status but pending
WithStatusFromPending(order, status) ==
  IF order.status = "pending" THEN [order EXCEPT !.status = status] ELSE order

\* order.status = status
WithStatus(order, status) == [order EXCEPT !.status = status]

\* updateOrderStatus, lines 162-163: the status is assigned and order.save runs in
\* the session; a document with no modified path is not written
US_Save(r) ==
  /\ Ready
  /\ pc[r] = "us_save"
  /\ LET t == txn[r]
         order == OrderPreSave(WithStatus(loc[r].order, req[r].status))
         modified == order # loc[r].order
     IN  IF modified /\ ~OrderValid(order)
         THEN /\ loc' = [loc EXCEPT ![r].error = Err("OrderValidationError")]
              /\ pc' = [pc EXCEPT ![r] = "us_abort"]
              /\ UNCHANGED txn
         ELSE IF modified /\ OrderConflict(r, t, order.id)
         THEN /\ loc' = [loc EXCEPT ![r].error = Err("WriteConflict")]
              /\ pc' = [pc EXCEPT ![r] = "us_abort"]
              /\ UNCHANGED txn
         ELSE /\ txn' = IF modified
                        THEN [txn EXCEPT ![r].wOrder =
                                [id |-> order.id, status |-> order.status]]
                        ELSE txn
              /\ loc' = [loc EXCEPT ![r].order = order]
              /\ pc' = [pc EXCEPT ![r] = "us_commit"]
  /\ res' = NoRes
  /\ UNCHANGED <<products, nextProductId, orders, req, nUpdates, nEdits, hist>>

\* updateOrderStatus, lines 166-169: commitTransaction, endSession, 200 with the order
US_Commit(r) ==
  /\ Ready
  /\ pc[r] = "us_commit"
  /\ CommitTransaction(r)
  /\ res' = [Respond("updateOrderStatus", req[r], 200, NoError, Seen(txn[r]))
               EXCEPT !.session = Session(1, 0, 1)]
  /\ pc' = [pc EXCEPT ![r] = "idle"]
  /\ req' = [req EXCEPT ![r] = NoReq]
  /\ loc' = [loc EXCEPT ![r] = NoLoc]
  /\ UNCHANGED <<nextProductId, nUpdates, nEdits>>
  /\ Forget

\* updateOrderStatus, lines 170-174: abortTransaction, endSession, 400 with the message
US_Abort(r) ==
  /\ Ready
  /\ pc[r] = "us_abort"
  /\ AbortTransaction(r)
  /\ res' = [Respond("updateOrderStatus", req[r], 400, loc[r].error, Seen(txn[r]))
               EXCEPT !.session = Session(0, 1, 1)]
  /\ pc' = [pc EXCEPT ![r] = "idle"]
  /\ req' = [req EXCEPT ![r] = NoReq]
  /\ loc' = [loc EXCEPT ![r] = NoLoc]
  /\ UNCHANGED <<nextProductId, nUpdates, nEdits>>
  /\ Forget

\* ------------------------------------------------------------ specification
\* the steps handlers take after an await, in the slots R
Resume(R) ==
  \/ \E r \in R : PO_Find(r)
  \/ \E r \in R : PO_SaveProduct(r)
  \/ \E r \in R : PO_SaveOrder(r)
  \/ \E r \in R : PO_Commit(r)
  \/ \E r \in R : PO_Abort(r)
  \/ \E r \in R : US_Find(r)
  \/ \E r \in R : US_Inc(r)
  \/ \E r \in R : US_Save(r)
  \/ \E r \in R : US_Commit(r)
  \/ \E r \in R : US_Abort(r)

\* requests whose handlers run one at a time, product requests between their steps
Next ==
  \/ \E b \in CreateBodies : CreateProduct(b)
  \/ \E id \in ProductIds, b \in UpdateBodies : UpdateProduct(id, b)
  \/ \E id \in ProductIds : DeleteProduct(id)
  \/ \E b \in PlaceBodies : PO_Begin(1, b)
  \/ \E id \in OrderIds, status \in StatusIn : US_Begin(1, id, status)
  \/ Resume({1})
  \/ PO_CommitFails(1)
  \/ Deliver

Spec == Init /\ [][Next]_vars

\* requests whose handlers run concurrently
NextConc ==
  \/ \E b \in {ProductBody(Field("B"), Field(2), Field(1))} : CreateProduct(b)
  \/ \E id \in ProductIds, b \in {ProductBody(NoName, Absent, Field(0)),
                                  ProductBody(NoName, Absent, Field(0 - 1))} :
       UpdateProduct(id, b)
  \/ \E id \in ProductIds : DeleteProduct(id)
  \/ \E r \in Req, b \in ConcBodies : PO_Begin(r, b)
  \/ \E r \in Req, id \in OrderIds, status \in Statuses : US_Begin(r, id, status)
  \/ Resume(Req)
  \/ Deliver

SpecConc == InitOne(2) /\ [][NextConc]_vars

\* two placements racing for the stock of one product
NextRace ==
  \/ \E r \in Req, b \in RaceBodies : PO_Begin(r, b)
  \/ \E r \in Req : PO_Find(r)
  \/ \E r \in Req : PO_SaveProduct(r)
  \/ \E r \in Req : PO_SaveOrder(r)
  \/ \E r \in Req : PO_Commit(r)
  \/ \E r \in Req : PO_Abort(r)
  \/ Deliver

SpecRace == InitOne(RaceStock) /\ [][NextRace]_vars

\* the order that took OrderedQty units, all there was, of product A
TakenOrder(status) ==
  [id |-> 0, customer_name |-> "alice",
   items |-> <<[product_id |-> 1, name |-> "A", price_at_order |-> 1,
                quantity |-> OrderedQty]>>,
   total_price |-> OrderedQty, status |-> status]

\* the order has been placed, and perhaps cancelled once
InitTaken ==
  /\ \E status \in {"pending", "cancelled"} :
       /\ orders = <<TakenOrder(status)>>
       /\ products = [p \in ProductIds |->
                        IF p = 1
                        THEN ProductA(IF status = "pending" THEN 0 ELSE OrderedQty)
                        ELSE NoProduct]
  /\ nextProductId = 2
  /\ pc = [r \in Req |-> "idle"]
  /\ req = [r \in Req |-> NoReq]
  /\ loc = [r \in Req |-> NoLoc]
  /\ txn = [r \in Req |-> NoTxn]
  /\ nUpdates = 0
  /\ nEdits = 0
  /\ res = NoRes
  /\ hist = NoHist

\* status updates of one order, and nothing else
NextLife ==
  \/ \E r \in Req, status \in Statuses : US_Begin(r, 1, status)
  \/ \E r \in Req : US_Find(r)
  \/ \E r \in Req : US_Inc(r)
  \/ \E r \in Req : US_Save(r)
  \/ \E r \in Req : US_Commit(r)
  \/ \E r \in Req : US_Abort(r)
  \/ Deliver

SpecLife == InitTaken /\ [][NextLife]_vars

\* the bodies of the product requests: names with and without white space, empty
\* and missing, numbers positive, zero, negative and missing
CatalogBodies ==
  {ProductBody(n, p, s) :
     n \in {Field("A"), Field(" A"), Field("B"), Field(" "), Field(""), NoName},
     p \in {Field(1), Field(0), Field(0 - 1), Absent},
     s \in {Field(1), Field(0), Field(0 - 1), Absent}}

\* product requests, and nothing else
NextCatalog ==
  \/ \E b \in CatalogBodies : CreateProduct(b)
  \/ \E id \in ProductIdsIn, b \in CatalogBodies : UpdateProduct(id, b)
  \/ \E id \in ProductIdsIn : DeleteProduct(id)
  \/ \E id \in ProductIdsIn : GetProductById(id)
  \/ Deliver

SpecCatalog == Init /\ [][NextCatalog]_vars

\* a query that asks for no customer
ByAnyCustomer(os, name) == os

\* Order.find({ customer_name: customerName }): the filter is cast by the schema,
\* whose trim setter acts on the name asked for
ByCustomer(os, name) ==
  LET Match(o) == o.customer_name = Trim(name) IN SelectSeq(os, Match)

\* sort({ createdAt: -1 }): the orders are stored in the order of their creation
Newest(os) == [k \in 1..Len(os) |-> os[Len(os) + 1 - k]]

\* exports.getOrdersByCustomer
GetOrdersByCustomer(name) ==
  /\ Ready
  /\ res' = RespondBody("getOrdersByCustomer", [op |-> "getOrdersByCustomer", name |-> name],
                        200, NoError, Newest(ByCustomer(orders, name)))
  /\ UNCHANGED <<products, nextProductId, orders, pc, req, loc, txn, nUpdates, nEdits, hist>>

\* the bodies of the placements of three customers, one named with white space
OrderBodies ==
  {PlaceBody("alice", <<L(1, 1)>>), PlaceBody(" alice", <<L(1, 1)>>),
   PlaceBody("bob", <<L(1, 1)>>), PlaceBody("bob", <<L(1, 2)>>)}

\* the names GET /orders/customer/:customerName is asked for
CustomerNames == {"alice", " alice", "bob", "carol"}

\* placements one at a time, and the orders of a customer read between their steps
NextOrders ==
  \/ \E b \in OrderBodies : PO_Begin(1, b)
  \/ PO_Find(1)
  \/ PO_SaveProduct(1)
  \/ PO_SaveOrder(1)
  \/ PO_Commit(1)
  \/ PO_Abort(1)
  \/ \E name \in CustomerNames : GetOrdersByCustomer(name)
  \/ Deliver

SpecOrders == InitOne(2) /\ [][NextOrders]_vars

\* placeOrder, line 10: mongoose.startSession() rejects, outside the try
PO_StartFails(b) ==
  /\ Ready
  /\ FreeSlot(1)
  /\ \E status \in Unhandled :
       res' = Respond("placeOrder", [op |-> "placeOrder", body |-> b], status,
                      Err("StorageFailure"), Stores)
  /\ UNCHANGED <<products, nextProductId, orders, pc, req, loc, txn, nUpdates, nEdits, hist>>

\* updateOrderStatus, line 136: mongoose.startSession() rejects, outside the try
US_StartFails(id, status) ==
  /\ Ready
  /\ FreeSlot(1)
  /\ ~StatusInvalid(status)
  /\ \E s \in Unhandled :
       res' = Respond("updateOrderStatus",
                      [op |-> "updateOrderStatus", id |-> id, status |-> status], s,
                      Err("StorageFailure"), Stores)
  /\ UNCHANGED <<products, nextProductId, orders, pc, req, loc, txn, nUpdates, nEdits, hist>>

\* a read or a write in the session rejects, inside the try: the catch takes over
StorageFails(r) ==
  /\ Ready
  /\ pc[r] \in {"po_find", "po_saveProduct", "po_saveOrder", "us_find", "us_inc", "us_save"}
  /\ loc' = [loc EXCEPT ![r].error = Err("StorageFailure")]
  /\ pc' = [pc EXCEPT ![r] = IF req[r].op = "placeOrder" THEN "po_abort" ELSE "us_abort"]
  /\ res' = NoRes
  /\ UNCHANGED <<products, nextProductId, orders, req, txn, nUpdates, nEdits, hist>>

\* updateOrderStatus, lines 166 and 170-171: commitTransaction throws, and in the
\* catch abortTransaction throws in its turn
US_CommitFails(r) ==
  /\ Ready
  /\ pc[r] = "us_commit"
  /\ AbortTransaction(r)
  /\ \E status \in Unhandled :
       res' = [Respond("updateOrderStatus", req[r], status, Err("StorageFailure"), Seen(txn[r]))
                 EXCEPT !.session = Session(1, 1, 0)]
  /\ pc' = [pc EXCEPT ![r] = "idle"]
  /\ req' = [req EXCEPT ![r] = NoReq]
  /\ loc' = [loc EXCEPT ![r] = NoLoc]
  /\ UNCHANGED <<nextProductId, nUpdates, nEdits>>
  /\ Forget

\* lines 70 and 171: abortTransaction rejects in the catch; the store drops the
\* transaction when its time is up
AbortFails(r) ==
  /\ Ready
  /\ pc[r] \in {"po_abort", "us_abort"}
  /\ AbortTransaction(r)
  /\ \E status \in Unhandled :
       res' = [Respond(req[r].op, req[r], status, Err("StorageFailure"), Seen(txn[r]))
                 EXCEPT !.session = Session(0, 1, 0)]
  /\ pc' = [pc EXCEPT ![r] = "idle"]
  /\ req' = [req EXCEPT ![r] = NoReq]
  /\ loc' = [loc EXCEPT ![r] = NoLoc]
  /\ UNCHANGED <<nextProductId, nUpdates, nEdits>>
  /\ Forget

\* the bodies of the placements sent while the store may fail
LiveBodies == {PlaceBody("alice", <<L(1, 1)>>), PlaceBody("alice", <<L(1, 2)>>)}

\* requests handled one at a time over a store that may fail at any call
NextLive ==
  \/ \E b \in LiveBodies : PO_Begin(1, b)
  \/ \E id \in OrderIds, status \in Statuses : US_Begin(1, id, status)
  \/ Resume({1})
  \/ \E b \in LiveBodies : PO_StartFails(b)
  \/ \E id \in OrderIds, status \in Statuses : US_StartFails(id, status)
  \/ StorageFails(1)
  \/ PO_CommitFails(1)
  \/ US_CommitFails(1)
  \/ AbortFails(1)
  \/ Deliver

\* the event loop resumes a handler whose await has settled, and a response that
\* was sent reaches the client; no request has to come, and no call has to fail
SpecLive ==
  InitOne(2) /\ [][NextLive]_vars /\ WF_vars(Resume({1})) /\ WF_vars(Deliver)

\* the bodies of placements with lines of quantity 0 and -1, alone, after and
\* before a line in order, and for a product that is not in the catalog
QtyBodies ==
  {PlaceBody("alice", x) :
     x \in {<<L(1, 0)>>, <<L(1, 0 - 1)>>, <<L(1, 1), L(1, 0 - 1)>>,
            <<L(1, 0 - 1), L(1, 2)>>, <<L(1, 0), L(1, 1)>>, <<L(2, 0 - 1)>>,
            <<L(1, 1)>>}}

\* placements running concurrently, some with lines of a quantity below 1
NextQty ==
  \/ \E r \in Req, b \in QtyBodies : PO_Begin(r, b)
  \/ \E r \in Req : PO_Find(r)
  \/ \E r \in Req : PO_SaveProduct(r)
  \/ \E r \in Req : PO_SaveOrder(r)
  \/ \E r \in Req : PO_Commit(r)
  \/ \E r \in Req : PO_Abort(r)
  \/ Deliver

SpecQty == InitOne(2) /\ [][NextQty]_vars

\* placements and status updates, one at a time, and no product request
NextFlow ==
  \/ \E b \in LiveBodies : PO_Begin(1, b)
  \/ \E id \in OrderIds, status \in Statuses : US_Begin(1, id, status)
  \/ Resume({1})
  \/ Deliver

SpecFlow == InitOne(InitialStock) /\ [][NextFlow]_vars

\* the items of the pending order: OrderedQty units of A, alone or before a unit of B
PendingItems ==
  {<<[product_id |-> 1, name |-> "A", price_at_order |-> 1, quantity |-> OrderedQty]>>,
   <<[product_id |-> 1, name |-> "A", price_at_order |-> 1, quantity |-> OrderedQty],
     [product_id |-> 2, name |-> "B", price_at_order |-> 2, quantity |-> 1]>>}

\* the order is pending, and holds all there was of its products
InitPending ==
  /\ \E items \in PendingItems :
       /\ orders = <<OrderPreSave([id |-> 0, customer_name |-> "alice", items |-> items,
                                   total_price |-> 0, status |-> "pending"])>>
       /\ products = [p \in ProductIds |->
                        IF p = 1 THEN ProductA(0)
                        ELSE IF p = 2 /\ Len(items) = 2
                        THEN [exists |-> TRUE, name |-> "B", price |-> 2, stock |-> 0]
                        ELSE NoProduct]
  /\ nextProductId = 3
  /\ pc = [r \in Req |-> "idle"]
  /\ req = [r \in Req |-> NoReq]
  /\ loc = [r \in Req |-> NoLoc]
  /\ txn = [r \in Req |-> NoTxn]
  /\ nUpdates = 0
  /\ nEdits = 0
  /\ res = NoRes
  /\ hist = NoHist

\* requests to cancel the order, running concurrently
NextCancel ==
  \/ \E r \in Req : US_Begin(r, 1, "cancelled")
  \/ \E r \in Req : US_Find(r)
  \/ \E r \in Req : US_Inc(r)
  \/ \E r \in Req : US_Save(r)
  \/ \E r \in Req : US_Commit(r)
  \/ \E r \in Req : US_Abort(r)
  \/ Deliver

SpecCancel == InitPending /\ [][NextCancel]_vars

\* ------------------------------------------------------------ merge(intervals)
\* an interval is the pair <<start, end>>; the lists merge is given
Intervals == {<<s, e>> : s \in 0..MaxPoint, e \in 0..MaxPoint}
MergeInputs ==
  UNION {[1..n -> {x \in Intervals : x[1] <= x[2]}] : n \in 0..MaxIntervals}

Max(a, b) == IF a >= b THEN a ELSE b

\* intervals.sort((a, b) => a[0] - b[0]): by start, equal starts in their order
Insert(x, s) ==
  LET n == Cardinality({k \in 1..Len(s) : s[k][1] <= x[1]})
  IN  SubSeq(s, 1, n) \o <<x>> \o SubSeq(s, n + 1, Len(s))

RECURSIVE SortByStart(_)
SortByStart(s) ==
  IF s = <<>> THEN <<>>
  ELSE Insert(s[Len(s)], SortByStart(SubSeq(s, 1, Len(s) - 1)))

\* an overlap that two intervals that only touch do not make
OverlapsInside(currentInterval, lastMergedInterval) ==
  currentInterval[1] < lastMergedInterval[2]

\* currentInterval[0] <= lastMergedInterval[1]
Overlaps(currentInterval, lastMergedInterval) ==
  currentInterval[1] <= lastMergedInterval[2]

\* the loop of merge, from index i of the sorted intervals
RECURSIVE MergeLoop(_, _, _)
MergeLoop(intervals, i, mergedIntervals) ==
  IF i > Len(intervals) THEN mergedIntervals
  ELSE LET currentInterval == intervals[i]
           last == Len(mergedIntervals)
           lastMergedInterval == mergedIntervals[last]
       IN  IF Overlaps(currentInterval, lastMergedInterval)
           THEN MergeLoop(intervals, i + 1,
                          [mergedIntervals EXCEPT ![last][2] =
                             Max(lastMergedInterval[2], currentInterval[2])])
           ELSE MergeLoop(intervals, i + 1, Append(mergedIntervals, currentInterval))

\* const merge = function(intervals)
merge(intervals) ==
  IF Len(intervals) <= 1 THEN intervals
  ELSE MergeLoop(SortByStart(intervals), 2, <<SortByStart(intervals)[1]>>)

\* a call of merge, and what it returns
Merge(intervals) ==
  /\ Ready
  /\ res' = [op |-> "merge", intervals |-> intervals, result |-> merge(intervals)]
  /\ UNCHANGED <<products, nextProductId, orders, pc, req, loc, txn, nUpdates, nEdits, hist>>

NextMerge ==
  \/ \E intervals \in MergeInputs : Merge(intervals)
  \/ Deliver

SpecMerge == Init /\ [][NextMerge]_vars

\* ------------------------------------------- the handlers run with nothing between
\* the quantity the lines of a request, or of an order, ask of product p
RECURSIVE QtyFor(_, _)
QtyFor(items, p) ==
  IF items = <<>> THEN 0
  ELSE (IF Head(items).product_id = p THEN Head(items).quantity ELSE 0)
         + QtyFor(Tail(items), p)

\* placeOrder, lines 26-49: the loop over the lines, run to its end or to its
\* first throw
RECURSIVE PlaceLines(_, _)
PlaceLines(items, acc) ==
  IF items = <<>> THEN acc
  ELSE LET item == Head(items)
           product == acc.products[item.product_id]
       IN  IF ~product.exists
           THEN [acc EXCEPT !.error =
                   [Err("ProductNotFound") EXCEPT !.id = item.product_id]]
           ELSE IF product.stock < item.quantity
           THEN [acc EXCEPT !.error =
                   [Err("InsufficientStock") EXCEPT !.name = product.name,
                      !.available = product.stock, !.requested = item.quantity]]
           ELSE PlaceLines(Tail(items),
                  [acc EXCEPT
                     !.products[item.product_id].stock = @ - item.quantity,
                     !.items = Append(@, [product_id |-> item.product_id,
                                          name |-> product.name,
                                          price_at_order |-> product.price,
                                          quantity |-> item.quantity]),
                     !.total = @ + product.price * item.quantity])

\* placeOrder, lines 8-76, on the stores st: the error thrown, if any, and the
\* stores left
PlaceOrderAlone(st, b) ==
  LET failed(e) == [error |-> e, products |-> st.products, orders |-> st.orders]
  IN  IF b.customer_name = "" \/ b.items = <<>>
      THEN failed(Err("ValidationError"))
      ELSE LET w == PlaceLines(b.items, [error |-> NoError, products |-> st.products,
                                         items |-> <<>>, total |-> 0])
               newOrder == [id |-> 0, customer_name |-> Trim(b.customer_name),
                            items |-> w.items, total_price |-> w.total,
                            status |-> "pending"]
           IN  IF w.error # NoError THEN failed(w.error)
               ELSE IF ~OrderValid(newOrder) THEN failed(Err("OrderValidationError"))
               ELSE [error |-> NoError, products |-> w.products,
                     orders |-> Append(st.orders, OrderPreSave(newOrder))]

\* updateOrderStatus, lines 127-175, on the stores st
UpdateStatusAlone(st, id, status) ==
  IF id > Len(st.orders)
  THEN [error |-> Err("OrderNotFound"), products |-> st.products, orders |-> st.orders]
  ELSE LET order == st.orders[id]
       IN  [error |-> NoError,
            products |->
              [p \in ProductIds |->
                 IF ShouldRestore(order, status) /\ st.products[p].exists
                 THEN [st.products[p] EXCEPT !.stock = @ + QtyFor(order.items, p)]
                 ELSE st.products[p]],
            orders |-> [st.orders EXCEPT ![id] = OrderPreSave([@ EXCEPT !.status = status])]]

\* ------------------------------------------------------------------ properties
Placed == res.op = "placeOrder"
StatusUpdated == res.op = "updateOrderStatus"
StoresKept == products = res.before.products /\ orders = res.before.orders
ItemsOf(rs) == rs.req.body.items

C2_AnyShortLine ==
  (Placed /\ \E k \in DOMAIN ItemsOf(res) :
               LET product == res.before.products[ItemsOf(res)[k].product_id]
               IN  product.exists /\ ItemsOf(res)[k].quantity > product.stock)
    => /\ res.status = 400
       /\ res.error.kind = "InsufficientStock"
       /\ \E k \in DOMAIN ItemsOf(res) :
            LET product == res.before.products[ItemsOf(res)[k].product_id]
            IN  /\ product.exists
                /\ res.error.name = product.name
                /\ res.error.available = product.stock
                /\ res.error.requested = ItemsOf(res)[k].quantity
       /\ StoresKept

\* C2: a placement whose lines, taken in input order against the catalog its
\* transaction reads, fail first on a line asking more than is left of its
\* product after the earlier lines, is answered 400 InsufficientStock with the
\* product's name, what is left and the quantity asked, unless a write conflict
\* ended it before; and it creates no order and changes no product
C2_FirstShortLine ==
  (/\ Placed
   /\ PlaceOrderAlone(res.seen, res.req.body).error.kind = "InsufficientStock"
   /\ res.error.kind # "WriteConflict")
    => /\ res.status = 400
       /\ res.error = PlaceOrderAlone(res.seen, res.req.body).error
       /\ StoresKept

\* a second line that asks more than the first line left of the same product
C2_Witness ==
  /\ Placed /\ res.status = 400 /\ res.error.kind = "InsufficientStock"
  /\ Len(ItemsOf(res)) = 2
  /\ ItemsOf(res)[1].product_id = ItemsOf(res)[2].product_id
  /\ res.error.requested <= res.before.products[ItemsOf(res)[2].product_id].stock
  /\ res.error.available < res.error.requested

\* C3: a placement answered 201 leaves every product with the stock it had
\* before, less the quantity the request asks of it, and with its name and price;
\* the products it asks of were read as they stood; one order is added
C3_PlacementEffect ==
  (Placed /\ res.status = 201)
    => /\ \A p \in ProductIds :
            /\ products[p] = [res.before.products[p] EXCEPT
                                !.stock = @ - QtyFor(ItemsOf(res), p)]
            /\ QtyFor(ItemsOf(res), p) > 0
                 => /\ res.before.products[p].exists
                    /\ res.seen.products[p] = res.before.products[p]
       /\ Len(orders) = Len(res.before.orders) + 1
       /\ SubSeq(orders, 1, Len(res.before.orders)) = res.before.orders

\* a placement of two lines, one of them for two units
C3_Witness ==
  /\ Placed /\ res.status = 201
  /\ Len(ItemsOf(res)) = 2
  /\ \E p \in ProductIds : QtyFor(ItemsOf(res), p) >= 2
  /\ \E p \in ProductIds : products[p].exists /\ QtyFor(ItemsOf(res), p) = 0

RECURSIVE Sold(_, _)
Sold(os, p) ==
  IF os = <<>> THEN 0 ELSE QtyFor(Head(os).items, p) + Sold(Tail(os), p)

\* C5: the placements that succeed never hold, together, more than the stock
\* they competed for: of two that each fit and together do not, one fails
C5_NoOverselling ==
  /\ Sold(orders, 1) <= RaceStock
  /\ products[1].stock = RaceStock - Sold(orders, 1)

\* a placement that read the whole stock is refused after the other committed
C5_Witness ==
  /\ Placed /\ res.status = 400
  /\ res.seen.products[1].stock = RaceStock
  /\ Len(orders) = 1
  /\ QtyFor(ItemsOf(res), 1) <= RaceStock
  /\ QtyFor(ItemsOf(res), 1) + Sold(orders, 1) > RaceStock

\* C6 as stated: of two placements that race for a stock that does not cover
\* both, the one refused is refused with InsufficientStock
C6_LoserInsufficientStock ==
  (/\ Placed /\ res.status = 400
   /\ res.seen.products[1].stock = RaceStock
   /\ QtyFor(ItemsOf(res), 1) <= RaceStock
   /\ \/ Sold(orders, 1) + QtyFor(ItemsOf(res), 1) > RaceStock
      \/ \E q \in Req :
           /\ req[q].op = "placeOrder"
           /\ QtyFor(req[q].body.items, 1) + QtyFor(ItemsOf(res), 1) > RaceStock)
    => res.error.kind = "InsufficientStock"

\* C7: every placement and status update answered with success leaves the
\* stores as the handler run alone leaves them, from the stores as they stood
\* at its commit or, when it wrote nothing, as it read them; every one answered
\* 400 leaves the stores as they stood
C7_Serializable ==
  /\ (Placed /\ res.status = 201)
       => LET alone == PlaceOrderAlone(res.before, res.req.body)
          IN  alone.error = NoError /\ alone.products = products /\ alone.orders = orders
  /\ (StatusUpdated /\ res.status = 200)
       => LET at == IF StoresKept THEN res.seen ELSE res.before
              alone == UpdateStatusAlone(at, res.req.id, res.req.status)
          IN  /\ alone.error = NoError
              /\ alone.products = IF StoresKept THEN at.products ELSE products
              /\ alone.orders = IF StoresKept THEN at.orders ELSE orders
  /\ ((Placed \/ StatusUpdated) /\ res.status = 400) => StoresKept

\* a placement commits after another transaction committed within its lifetime
C7_Witness ==
  /\ Placed /\ res.status = 201
  /\ res.seen.orders # res.before.orders
  /\ res.seen.products # res.before.products

\* the sum of price_at_order * quantity over the first n items
RECURSIVE LineTotals(_, _)
LineTotals(items, n) ==
  IF n = 0 THEN 0
  ELSE items[n].price_at_order * items[n].quantity + LineTotals(items, n - 1)

\* C8: every persisted order has total_price equal to the sum over its items of
\* price_at_order * quantity
C8_TotalPrice ==
  \A k \in 1..Len(orders) :
    orders[k].total_price = LineTotals(orders[k].items, Len(orders[k].items))

\* an order of two lines, one for two units, saved again by a status update
C8_Witness ==
  \E k \in 1..Len(orders) :
    /\ Len(orders[k].items) = 2
    /\ \E j \in 1..2 : orders[k].items[j].quantity = 2 /\ orders[k].items[j].price_at_order > 1
    /\ orders[k].status = "completed"

\* C9: a status update to cancelled, answered 200, of an order that was pending
\* adds to every product in the catalog the quantity the order's items hold of
\* it, changes nothing else of any product, and sets the order's status
C9_CancelRestores ==
  (/\ StatusUpdated /\ res.status = 200 /\ res.req.status = "cancelled"
   /\ res.before.orders[res.req.id].status = "pending")
    => /\ \A p \in ProductIds :
            products[p] =
              IF res.before.products[p].exists
              THEN [res.before.products[p] EXCEPT
                      !.stock = @ + QtyFor(res.before.orders[res.req.id].items, p)]
              ELSE res.before.products[p]
       /\ orders = [res.before.orders EXCEPT ![res.req.id].status = "cancelled"]

\* a pending order holding two units of a product, and none of another, is cancelled
C9_Witness ==
  /\ StatusUpdated /\ res.status = 200 /\ res.req.status = "cancelled"
  /\ res.before.orders[res.req.id].status = "pending"
  /\ \E p \in ProductIds :
       /\ products[p].exists
       /\ QtyFor(orders[res.req.id].items, p) >= 2
  /\ \E p \in ProductIds :
       /\ products[p].exists
       /\ QtyFor(orders[res.req.id].items, p) = 0

\* C10: when an order is placed and then cancelled, and nothing changed the
\* stores in between, every product is as it was before the placement
C10_PlaceThenCancel ==
  (/\ StatusUpdated /\ res.status = 200 /\ res.req.status = "cancelled"
   /\ res.before.hist.id = res.req.id)
    => \A p \in ProductIds : products[p] = res.before.hist.products[p]

\* the order cancelled right after its placement took stock of two products
C10_Witness ==
  /\ StatusUpdated /\ res.status = 200 /\ res.req.status = "cancelled"
  /\ res.before.hist.id = res.req.id
  /\ \A p \in ProductIds : res.before.products[p].stock < products[p].stock

\* C11: a status update to cancelled, answered 200, of an order that is cancelled
\* leaves every product and every order as it was
C11_RecancelKeepsStock ==
  (/\ StatusUpdated /\ res.status = 200 /\ res.req.status = "cancelled"
   /\ res.before.orders[res.req.id].status = "cancelled")
    => /\ products = res.before.products
       /\ orders = res.before.orders
       /\ orders[res.req.id].status = "cancelled"

\* an order that took stock of a product still in the catalog is cancelled again
C11_Witness ==
  /\ StatusUpdated /\ res.status = 200 /\ res.req.status = "cancelled"
  /\ res.before.orders[res.req.id].status = "cancelled"
  /\ \E p \in ProductIds : products[p].exists /\ QtyFor(orders[res.req.id].items, p) > 0

\* C12 as stated: the status updates of an order never add back to a product
\* more than the order took of it; here nothing else adds stock, so the product
\* never has more than it had before the order
C12_RestoredAtMostOnce ==
  products[1].stock <= OrderedQty

\* C13 as stated: a status update to cancelled of an order that is not cancelled
\* and has an item whose product is no longer in the catalog is answered with
\* an error and changes no order and no product
C13_DanglingProductAborts ==
  (/\ StatusUpdated /\ res.req.status = "cancelled"
   /\ res.req.id <= Len(res.before.orders)
   /\ res.before.orders[res.req.id].status # "cancelled"
   /\ \E k \in DOMAIN res.before.orders[res.req.id].items :
        ~res.before.products[res.before.orders[res.req.id].items[k].product_id].exists)
    => res.status # 200 /\ StoresKept

\* C14: a status update answered 400 leaves every product and every order as it
\* was, whatever it had written in its transaction; one answered 200 leaves them
\* with the status set and, when the order becomes cancelled, every product in
\* the catalog given back what the order's items hold of it, all in one step
C14_StatusUpdateAtomic ==
  StatusUpdated =>
    /\ res.status = 400 => StoresKept
    /\ res.status = 200 =>
         LET alone == UpdateStatusAlone(res.before, res.req.id, res.req.status)
         IN  alone.products = products /\ alone.orders = orders

\* a cancellation fails on its second item after the increment for its first
C14_Witness ==
  /\ StatusUpdated /\ res.status = 400 /\ res.req.status = "cancelled"
  /\ res.error.kind = "WriteConflict"
  /\ LET items == res.before.orders[res.req.id].items
     IN  /\ Len(items) = 2
         /\ items[1].product_id # items[2].product_id
         /\ res.seen.products[items[1].product_id] = res.before.products[items[1].product_id]
         /\ res.seen.products[items[2].product_id] # res.before.products[items[2].product_id]
  /\ StoresKept

\* C15 as stated: a placement whose order save or whose commit fails, after its
\* decrements were written, is answered with a failure, and leaves no order and
\* every product as it was
C15_PersistFailure ==
  (Placed /\ res.error.kind \in {"OrderValidationError", "StorageFailure"})
    => res.status = 400 /\ StoresKept

\* C16 as stated: a status update, with a valid status, of an order id that does
\* not exist is answered 404 and changes no order and no product
C16_UnknownOrder404 ==
  (/\ StatusUpdated /\ res.req.status \in Statuses
   /\ res.req.id > Len(res.before.orders))
    => res.status = 404 /\ StoresKept

\* C17: a status update whose status is missing or not one of pending, completed
\* and cancelled is answered 400 InvalidStatus, also when the order id is of no
\* order; no transaction is open for it, no order is read, and every product and
\* every order is as it was
C17_InvalidStatusFirst ==
  (StatusUpdated /\ res.req.status \notin Statuses)
    => /\ res.status = 400
       /\ res.error.kind = "InvalidStatus"
       /\ StoresKept
       /\ res.seen = res.before
       /\ \A r \in Req : ~txn[r].active /\ pc[r] = "idle"

\* an unknown status for an order id that does not exist
C17_Witness ==
  /\ StatusUpdated /\ res.status = 400
  /\ res.req.status = "shipped"
  /\ res.req.id > Len(orders)

\* C18: a placement whose customer_name is missing or empty, or whose items are
\* missing or empty, is answered 400 ValidationError; its transaction is ended,
\* no order is created and every product is as it was
C18_BodyValidation ==
  (Placed /\ (res.req.body.customer_name = "" \/ res.req.body.items = <<>>))
    => /\ res.status = 400
       /\ res.error.kind = "ValidationError"
       /\ StoresKept
       /\ res.seen = res.before
       /\ \A r \in Req : ~txn[r].active

\* a placement without customer_name for a product that is in stock
C18_Witness ==
  /\ Placed /\ res.status = 400
  /\ res.req.body.customer_name = ""
  /\ \E k \in DOMAIN ItemsOf(res) :
       /\ products[ItemsOf(res)[k].product_id].exists
       /\ products[ItemsOf(res)[k].product_id].stock >= ItemsOf(res)[k].quantity

CatalogOps == {"createProduct", "updateProduct", "deleteProduct"}

\* C19: no request to create, update or delete a product changes an order; and
\* no request at all changes the items or the total_price of an order that was
\* persisted before it
C19_SnapshotImmutable ==
  /\ res.op \in CatalogOps => orders = res.before.orders
  /\ res # NoRes =>
       \A k \in 1..Len(res.before.orders) :
         /\ orders[k].items = res.before.orders[k].items
         /\ orders[k].total_price = res.before.orders[k].total_price

\* a product of an order is deleted, or given a name or a price that is not the
\* one the order holds
C19_Witness ==
  /\ res.op \in {"updateProduct", "deleteProduct"} /\ res.status = 200
  /\ \E k \in 1..Len(orders) : \E j \in 1..Len(orders[k].items) :
       /\ orders[k].items[j].product_id = res.req.id
       /\ \/ ~products[res.req.id].exists
          \/ products[res.req.id].price # orders[k].items[j].price_at_order
          \/ products[res.req.id].name # orders[k].items[j].name

\* the name a body gives is that of a product other than except
Collides(b, except) ==
  /\ b.name.has
  /\ \E p \in ProductIds \ {except} :
       res.before.products[p].exists /\ res.before.products[p].name = Trim(b.name.v)

\* C20: no two products in the catalog have the same name; a create whose name,
\* and an update of a product whose new name, is that of another product is
\* answered 400 and leaves the catalog as it was
C20_NameUnique ==
  /\ \A p, q \in ProductIds :
       (p # q /\ products[p].exists /\ products[q].exists)
         => products[p].name # products[q].name
  /\ (res.op = "createProduct" /\ Collides(res.req.body, 0))
       => res.status = 400 /\ StoresKept
  /\ (/\ res.op = "updateProduct" /\ res.req.id \in ProductIds
      /\ res.before.products[res.req.id].exists
      /\ Collides(res.req.body, res.req.id))
       => res.status = 400 /\ StoresKept

\* a product is refused the name of another, which it gave with white space
C20_Witness ==
  /\ res.op = "updateProduct" /\ res.status = 400
  /\ res.error.kind = "DuplicateName"
  /\ res.req.body.name.v = " A"
  /\ products[res.req.id].name = "B"

\* the product a create request has added to the catalog
Created(rs) ==
  {p \in ProductIds : products[p].exists /\ ~rs.before.products[p].exists}

\* C21: a create request whose name is missing or empty, or whose price or stock
\* is missing or negative, is answered 400 and no product is created; a request
\* with a name, a price >= 0 and a stock >= 0 (0 included) whose name is free is
\* answered 201 and the product is in the catalog as given
C21_CreateRejects ==
  res.op = "createProduct" =>
    LET b == res.req.body
        bad == \/ ~b.name.has \/ b.name.v = ""
               \/ ~b.price.has \/ b.price.v < 0
               \/ ~b.stock.has \/ b.stock.v < 0
    IN  /\ bad => res.status = 400 /\ StoresKept
        /\ (~bad /\ Trim(b.name.v) # "" /\ ~Collides(b, 0)) =>
             /\ res.status = 201
             /\ \E p \in ProductIds :
                  /\ Created(res) = {p}
                  /\ products[p].price = b.price.v /\ products[p].stock = b.stock.v
                  /\ products[p].name = Trim(b.name.v)

\* a request with a name and a stock is refused for its negative price, after a
\* product with price 0 and stock 0 was let in
C21_Witness ==
  /\ res.op = "createProduct" /\ res.status = 400
  /\ res.req.body.name.v = "B" /\ res.req.body.stock = Field(1)
  /\ res.req.body.price = Field(0 - 1)
  /\ \E p \in ProductIds :
       products[p].exists /\ products[p].price = 0 /\ products[p].stock = 0

C23_UnknownProduct404 ==
  (/\ res.op \in {"getProductById", "updateProduct", "deleteProduct"}
   /\ (res.req.id \in ProductIds => ~res.before.products[res.req.id].exists))
    => /\ res.status = 404 /\ res.error.kind = "ProductNotFound"
       /\ StoresKept

\* C24: a status update of an order whose status is completed, to any status,
\* leaves the stock of every product as it was
C24_CompletedTerminal ==
  (/\ StatusUpdated /\ res.req.id <= Len(res.before.orders)
   /\ res.before.orders[res.req.id].status = "completed")
    => \A p \in ProductIds : products[p].stock = res.before.products[p].stock

\* how many times order o is in the sequence os
Times(os, o) == Cardinality({k \in 1..Len(os) : os[k] = o})

\* the orders of the response are the stored orders whose customer_name is name
ExactlyOf(rs, name) ==
  \A o \in {rs.before.orders[k] : k \in 1..Len(rs.before.orders)}
           \cup {rs.body[k] : k \in 1..Len(rs.body)} :
    Times(rs.body, o) = IF o.customer_name = name THEN Times(rs.before.orders, o) ELSE 0

\* getOrdersByCustomer answers 200 with the orders whose customer_name is the name
\* as given, and changes nothing
C25_ExactName ==
  res.op = "getOrdersByCustomer" =>
    /\ res.status = 200 /\ StoresKept
    /\ ExactlyOf(res, res.req.name)

\* C25: getOrdersByCustomer answers 200 with the orders whose customer_name is the
\* name given, trimmed of the white space around it, an empty list when there is
\* none, and changes nothing
C25_TrimmedName ==
  res.op = "getOrdersByCustomer" =>
    /\ res.status = 200 /\ StoresKept
    /\ ExactlyOf(res, Trim(res.req.name))

\* bob's order is returned and alice's is not; carol would get an empty list
C25_Witness ==
  /\ res.op = "getOrdersByCustomer" /\ res.status = 200
  /\ res.req.name = "bob" /\ Len(res.body) = 1 /\ Len(orders) = 2
  /\ ByCustomer(orders, "carol") = <<>>

\* C26: a status update answered 200 changes the stock of some product if and
\* only if the order was not cancelled and becomes cancelled; an update to
\* pending or completed leaves every product as it was and changes nothing of
\* the orders but that order's status
C26_RestorationFrame ==
  (StatusUpdated /\ res.status = 200) =>
    LET was == res.before.orders[res.req.id] IN
    /\ (\E p \in ProductIds : products[p].stock # res.before.products[p].stock)
         <=> (was.status # "cancelled" /\ res.req.status = "cancelled")
    /\ res.req.status \in {"pending", "completed"} =>
         /\ products = res.before.products
         /\ orders = [res.before.orders EXCEPT ![res.req.id].status = res.req.status]

\* C27: the status of every order is pending, completed or cancelled; a placement
\* answered 201 adds one order, whose status is pending; a status update answered
\* 200 leaves the order with the status asked for, whatever status it had; and a
\* status update of an order in the store, to one of the three statuses, is
\* refused only for a write conflict of its transaction, never for the transition
C27_StatusMachine ==
  /\ \A k \in 1..Len(orders) : orders[k].status \in Statuses
  /\ (Placed /\ res.status = 201) =>
       /\ Len(orders) = Len(res.before.orders) + 1
       /\ orders[Len(orders)].status = "pending"
  /\ (StatusUpdated /\ res.status = 200) =>
       /\ res.req.status \in Statuses
       /\ orders[res.req.id].status = res.req.status
  /\ (/\ StatusUpdated /\ res.status # 200
      /\ res.req.id <= Len(res.before.orders) /\ res.req.status \in Statuses)
       => res.error.kind = "WriteConflict"

\* an order that was cancelled is made pending again
C27_Witness ==
  /\ StatusUpdated /\ res.status = 200 /\ res.req.status = "pending"
  /\ res.before.orders[res.req.id].status = "cancelled"
  /\ orders[res.req.id].status = "pending"

\* C28: a placement with a customer_name and items, one of whose lines names a
\* product that is not in the catalog its transaction reads and another of whose
\* lines asks more than the stock of its product, is answered 400 ProductNotFound,
\* whichever of the two lines comes first
C28_ExistenceFirst ==
  (/\ Placed /\ ~BodyInvalid(res.req.body) /\ res.error.kind # "WriteConflict"
   /\ \E k \in DOMAIN ItemsOf(res) :
        ~res.seen.products[ItemsOf(res)[k].product_id].exists
   /\ \E k \in DOMAIN ItemsOf(res) :
        LET product == res.seen.products[ItemsOf(res)[k].product_id]
        IN  product.exists /\ ItemsOf(res)[k].quantity > product.stock)
    => /\ res.status = 400
       /\ res.error.kind = "ProductNotFound"

\* C29: the order a placement answered 201 has persisted holds one item for each
\* line of the request, in the order of the lines, with the line's product id and
\* quantity and the name and the price the product has in the catalog the
\* placement's transaction read
C29_SnapshotCapture ==
  (Placed /\ res.status = 201) =>
    LET order == orders[Len(orders)]
        lines == ItemsOf(res)
    IN  /\ Len(orders) = Len(res.before.orders) + 1
        /\ Len(order.items) = Len(lines)
        /\ \A k \in 1..Len(lines) :
             /\ order.items[k].product_id = lines[k].product_id
             /\ order.items[k].quantity = lines[k].quantity
             /\ order.items[k].name = res.seen.products[lines[k].product_id].name
             /\ order.items[k].price_at_order = res.seen.products[lines[k].product_id].price

\* an order of two lines of two products of different names and prices, the
\* product of the higher id first
C29_Witness ==
  /\ Placed /\ res.status = 201
  /\ Len(ItemsOf(res)) = 2
  /\ ItemsOf(res)[1].product_id = 2 /\ ItemsOf(res)[2].product_id = 1
  /\ orders[Len(orders)].items[1].name # orders[Len(orders)].items[2].name
  /\ orders[Len(orders)].items[1].price_at_order # orders[Len(orders)].items[2].price_at_order

\* C30: a placeOrder or updateOrderStatus call that has started a transaction
\* has, when it ends, called exactly one of commitTransaction and
\* abortTransaction, once, and endSession once: commitTransaction when it
\* answers 201 or 200, abortTransaction when it answers 400
C30_Lifecycle ==
  (res.op \in {"placeOrder", "updateOrderStatus"} /\ res.session.started) =>
    /\ res.session.commits + res.session.aborts = 1
    /\ res.session.ends = 1
    /\ res.status \in {200, 201} => res.session.commits = 1
    /\ res.status = 400 => res.session.aborts = 1

\* C31: a placeOrder or updateOrderStatus request that was taken up is answered
\* in the end with an HTTP response, whatever call on the store fails
C31_NoHang ==
  (pc[1] # "idle") ~> (res.op \in {"placeOrder", "updateOrderStatus"} /\ res.status # NoStatus)

\* C32: no step removes an order or changes the customer_name or the items of
\* one; a step that adds an order is the end of a placement answered 201 and
\* adds that one order; a step that changes the status of an order is the end
\* of a status update of that order answered 200
C32_OrderLifecycle ==
  [][/\ Len(orders') >= Len(orders)
     /\ \A k \in 1..Len(orders) :
          /\ orders'[k].customer_name = orders[k].customer_name
          /\ orders'[k].items = orders[k].items
          /\ orders'[k].status # orders[k].status =>
               /\ res'.op = "updateOrderStatus" /\ res'.status = 200
               /\ res'.req.id = k
     /\ Len(orders') > Len(orders) =>
          /\ res'.op = "placeOrder" /\ res'.status = 201
          /\ Len(orders') = Len(orders) + 1]_vars

\* with two orders in the store, one of them has been given another status by a
\* status update, after a product of its items was changed or deleted
C32_Witness ==
  /\ StatusUpdated /\ res.status = 200 /\ Len(orders) = 2
  /\ orders[res.req.id].status # res.before.orders[res.req.id].status
  /\ orders[res.req.id].items = res.before.orders[res.req.id].items
  /\ \E j \in DOMAIN orders[res.req.id].items :
       LET it == orders[res.req.id].items[j]
       IN  products[it.product_id].exists => products[it.product_id].name # it.name

\* C33: a placement with a line of quantity 0 or less is answered 400, creates
\* no order and leaves every product as it was; and no placement at all leaves
\* a product with more stock than it had
C33_QuantityBelowOne ==
  Placed =>
    /\ (\E k \in DOMAIN ItemsOf(res) : ItemsOf(res)[k].quantity < 1)
         => res.status = 400 /\ StoresKept
    /\ \A p \in ProductIds : products[p].stock <= res.before.products[p].stock

\* a line of quantity -1 of a product in stock passed the stock check and raised
\* the stock inside the transaction, and the order was refused when it was saved
C33_Witness ==
  /\ Placed /\ res.status = 400 /\ res.error.kind = "OrderValidationError"
  /\ ItemsOf(res)[1].quantity = 0 - 1
  /\ res.before.products[ItemsOf(res)[1].product_id].exists
  /\ StoresKept

\* the quantity the orders that are not cancelled hold of product p
RECURSIVE Held(_, _)
Held(os, p) ==
  IF os = <<>> THEN 0
  ELSE (IF Head(os).status # "cancelled" THEN QtyFor(Head(os).items, p) ELSE 0)
         + Held(Tail(os), p)

\* C34: with placements and status updates only, the stock of product A and the
\* quantities the orders that are not cancelled hold of it add up to its stock
\* before the first order
C34_StockConservation ==
  products[1].stock + Held(orders, 1) = InitialStock

\* C35: a placement of several lines, all of one product that its transaction
\* finds in the catalog, that no write conflict and no storage failure ends, is
\* answered 201 if and only if the quantities of its lines add up to no more
\* than the product's stock; then the stock goes down by that sum, and otherwise
\* the answer is 400 InsufficientStock for the line that what is left falls short of
C35_DuplicateLines ==
  (/\ Placed /\ ~BodyInvalid(res.req.body) /\ Len(ItemsOf(res)) >= 2
   /\ \A k \in DOMAIN ItemsOf(res) : ItemsOf(res)[k].product_id = ItemsOf(res)[1].product_id
   /\ res.seen.products[ItemsOf(res)[1].product_id].exists
   /\ res.error.kind \notin {"WriteConflict", "StorageFailure"})
    => LET p == ItemsOf(res)[1].product_id
           sum == QtyFor(ItemsOf(res), p)
       IN  /\ res.status = 201 <=> sum <= res.seen.products[p].stock
           /\ res.status = 201 =>
                products[p].stock = res.before.products[p].stock - sum
           /\ res.status # 201 =>
                /\ res.status = 400 /\ res.error.kind = "InsufficientStock"
                /\ res.error.available <= res.seen.products[p].stock
                /\ res.error.available < res.error.requested
                /\ StoresKept

\* two lines of one product that each fit its stock and together do not: the
\* second is refused for what the first has left
C35_Witness ==
  /\ Placed /\ res.status = 400 /\ res.error.kind = "InsufficientStock"
  /\ Len(ItemsOf(res)) = 2
  /\ ItemsOf(res)[1].product_id = ItemsOf(res)[2].product_id
  /\ ItemsOf(res)[2].quantity <= res.seen.products[ItemsOf(res)[2].product_id].stock
  /\ res.error.available =
       res.seen.products[ItemsOf(res)[1].product_id].stock - ItemsOf(res)[1].quantity

\* C36: of the requests to cancel one pending order that run concurrently, the
\* committed stock of each of the order's products holds the item's quantity
\* once when the order is cancelled, and not at all before; when MaxUpdates
\* requests have ended the order is cancelled; and a request that found the order
\* pending is answered 200 only if the stock was still without the quantities
C36_CancelledOnce ==
  /\ \A p \in ProductIds :
       products[p].stock =
         IF orders[1].status = "cancelled" THEN QtyFor(orders[1].items, p) ELSE 0
  /\ (nUpdates = MaxUpdates /\ \A r \in Req : pc[r] = "idle")
       => orders[1].status = "cancelled"
  /\ (StatusUpdated /\ res.status = 200 /\ res.seen.orders[1].status = "pending")
       => \A p \in ProductIds : res.before.products[p].stock = 0

\* two requests found the order pending; one has restored the stock and the
\* other ends with a write conflict
C36_Witness ==
  /\ StatusUpdated /\ res.status = 400 /\ res.error.kind = "WriteConflict"
  /\ res.seen.orders[1].status = "pending"
  /\ orders[1].status = "cancelled" /\ Len(orders[1].items) = 2
  /\ products[1].stock = OrderedQty /\ products[2].stock = 1

\* the point x / 2 lies in one of the intervals
Covered(intervals, x) ==
  \E k \in 1..Len(intervals) : 2 * intervals[k][1] <= x /\ x <= 2 * intervals[k][2]

\* C37: for a list of intervals with start <= end, merge returns intervals with
\* start <= end, each starting after the end of the one before it, that cover
\* the points the given intervals cover and no other; a list of no or one
\* interval is returned as it is
C37_Merge ==
  res.op = "merge" =>
    /\ Len(res.intervals) <= 1 => res.result = res.intervals
    /\ \A k \in 1..Len(res.result) : res.result[k][1] <= res.result[k][2]
    /\ \A k \in 1..(Len(res.result) - 1) :
         /\ res.result[k][1] < res.result[k + 1][1]
         /\ res.result[k][2] < res.result[k + 1][1]
    /\ \A x \in 0..(2 * MaxPoint) : Covered(res.result, x) <=> Covered(res.intervals, x)

\* three intervals given out of order, of which two only touch and one lies
\* apart, come back as two
C37_Witness ==
  /\ res.op = "merge" /\ Len(res.intervals) = 3 /\ Len(res.result) = 2
  /\ res.intervals[1][1] > res.intervals[2][1]
  /\ \E j, k \in 1..3 : res.intervals[j][2] = res.intervals[k][1]
                          /\ res.intervals[j][1] < res.intervals[k][1]
                          /\ res.intervals[j][2] < res.intervals[k][2]
  /\ res.result[1][2] + 1 = res.result[2][1]

====
